---- MODULE Spec2Model ----
(***************************************************************************)
(* Model of the two Let's Encrypt relay plugins:                           *)
(*   "letsencrypt"      (filesystem variant, src/unnamed/part_000:1-169)   *)
(*   "letsencrypt-ssl"  (remote variant,     src/unnamed/part_000:171-346) *)
(*                                                                         *)
(* JavaScript runs one callback at a time, so one action of the model is   *)
(* the code that runs between two await points of a call.                  *)
(*                                                                         *)
(* Instants are whole days counted from 1 January 2023; "now" and         *)
(* notAfter carry the same time of day.  A calendar date is a record       *)
(* [y, m, d] with m in 0..11 as Date.getMonth() gives it.                  *)
(***************************************************************************)
EXTENDS Integers, Sequences, FiniteSets, TLC

----------------------------------------------------------------------------
(* Bounds of the model *)

\* number of check() calls one process lifetime may start
MaxCalls == 2
\* number of times the relay process is stopped and started again
MaxRestarts == 1
\* evaluator inputs: notAfter ranges over now - MaxPastDays .. now + MaxAheadDays
MaxPastDays == 40
MaxAheadDays == 400

(* Program constants *)

\* "daysLeft > 30" (check, isSslValid)
RenewThreshold == 30
\* "duration.months * 30" (check, isSslValid)
DaysPerMonth == 30

----------------------------------------------------------------------------
(* Calendar arithmetic: JavaScript Date and the date-fns functions that     *)
(* intervalToDuration is built from.                                        *)

Abs(x) == IF x < 0 THEN -x ELSE x

Sign(x) == IF x < 0 THEN -1 ELSE IF x > 0 THEN 1 ELSE 0

IsLeapYear(y) == (y % 4 = 0 /\ y % 100 # 0) \/ y % 400 = 0

getDaysInMonth(y, m) ==
    IF m = 1 THEN (IF IsLeapYear(y) THEN 29 ELSE 28)
    ELSE IF m \in {3, 5, 8, 10} THEN 30 ELSE 31

\* new Date(y, m, d) / setMonth / setDate: a month outside 0..11 carries into
\* the year, a day outside the month carries into the neighbouring month
RECURSIVE JsDate(_, _, _)
JsDate(y, m, d) ==
    IF m < 0 THEN JsDate(y - 1, m + 12, d)
    ELSE IF m > 11 THEN JsDate(y + 1, m - 12, d)
    ELSE IF d < 1 THEN
        (IF m = 0 THEN JsDate(y - 1, 11, d + 31)
                  ELSE JsDate(y, m - 1, d + getDaysInMonth(y, m - 1)))
    ELSE IF d > getDaysInMonth(y, m) THEN JsDate(y, m + 1, d - getDaysInMonth(y, m))
    ELSE [y |-> y, m |-> m, d |-> d]

compareAsc(a, b) ==
    IF a.y # b.y THEN Sign(a.y - b.y)
    ELSE IF a.m # b.m THEN Sign(a.m - b.m)
    ELSE Sign(a.d - b.d)

RECURSIVE DaysBeforeYear(_)
DaysBeforeYear(y) ==
    IF y = 2023 THEN 0
    ELSE IF y > 2023
    THEN DaysBeforeYear(y - 1) + (IF IsLeapYear(y - 1) THEN 366 ELSE 365)
    ELSE DaysBeforeYear(y + 1) - (IF IsLeapYear(y) THEN 366 ELSE 365)

RECURSIVE DaysBeforeMonth(_, _)
DaysBeforeMonth(y, m) ==
    IF m <= 0 THEN 0 ELSE DaysBeforeMonth(y, m - 1) + getDaysInMonth(y, m - 1)

\* the day number of a date, counted from 1 January 2023
DayNumber(date) == DaysBeforeYear(date.y) + DaysBeforeMonth(date.y, date.m) + date.d - 1

\* the date of a day number (new Date(ms))
DateOfDay(n) == JsDate(2023, 0, n + 1)

isLastDayOfMonth(date) == date.d = getDaysInMonth(date.y, date.m)

\* date-fns differenceInYears: both dates are moved to the leap year 1584 and
\* the last year counts only when it is full
differenceInYears(dateLeft, dateRight) ==
    LET sign == compareAsc(dateLeft, dateRight)
        difference == Abs(dateLeft.y - dateRight.y)
        l == [dateLeft EXCEPT !.y = 1584]
        r == [dateRight EXCEPT !.y = 1584]
        isLastYearNotFull == compareAsc(l, r) = -sign
    IN  sign * (difference - (IF isLastYearNotFull THEN 1 ELSE 0))

differenceInCalendarMonths(dateLeft, dateRight) ==
    (dateLeft.y - dateRight.y) * 12 + (dateLeft.m - dateRight.m)

\* date-fns differenceInMonths, with its end-of-February adjustment
differenceInMonths(dateLeft, dateRight) ==
    LET sign == compareAsc(dateLeft, dateRight)
        difference == Abs(differenceInCalendarMonths(dateLeft, dateRight))
        l1 == IF dateLeft.m = 1 /\ dateLeft.d > 27
              THEN JsDate(dateLeft.y, dateLeft.m, 30) ELSE dateLeft
        l2 == JsDate(l1.y, l1.m - sign * difference, l1.d)
        notFull == compareAsc(l2, dateRight) = -sign
        isLastMonthNotFull ==
            IF isLastDayOfMonth(dateLeft) /\ difference = 1
               /\ compareAsc(dateLeft, dateRight) = 1
            THEN FALSE ELSE notFull
    IN  IF difference < 1 THEN 0
        ELSE sign * (difference - (IF isLastMonthNotFull THEN 1 ELSE 0))

\* date-fns differenceInDays of two instants with the same time of day
differenceInDays(dateLeft, dateRight) == DayNumber(dateLeft) - DayNumber(dateRight)

\* date-fns addMonths: the day of the month is clamped to the target month
addMonths(date, amount) ==
    LET endOfDesiredMonth == JsDate(date.y, date.m + amount + 1, 0)
    IN  IF date.d >= endOfDesiredMonth.d THEN endOfDesiredMonth
        ELSE [y |-> endOfDesiredMonth.y, m |-> endOfDesiredMonth.m, d |-> date.d]

\* date-fns (2.x) intervalToDuration({start, end}): whole years, then whole
\* months, then days, each as an absolute value
intervalToDuration(start, end) ==
    LET years == Abs(differenceInYears(end, start))
        sign == compareAsc(end, start)
        remainingMonths == addMonths(start, 12 * sign * years)
        months == Abs(differenceInMonths(end, remainingMonths))
        remainingDays == addMonths(remainingMonths, sign * months)
        days == Abs(differenceInDays(end, remainingDays))
    IN  [years |-> years, months |-> months, days |-> days]

----------------------------------------------------------------------------
(* Strings of the issuer common name, as sequences of characters *)

LowerCaseOf ==
    [ch \in {"S", "T", "A", "G", "I", "N", "E", "R", "X"} |->
        CASE ch = "S" -> "s" [] ch = "T" -> "t" [] ch = "A" -> "a"
          [] ch = "G" -> "g" [] ch = "I" -> "i" [] ch = "N" -> "n"
          [] ch = "E" -> "e" [] ch = "R" -> "r" [] ch = "X" -> "x"]

toLowerCase(s) ==
    [i \in 1..Len(s) |-> IF s[i] \in DOMAIN LowerCaseOf THEN LowerCaseOf[s[i]] ELSE s[i]]

includes(s, sub) ==
    \E i \in 1..(Len(s) - Len(sub) + 1) : SubSeq(s, i, i + Len(sub) - 1) = sub

StagingWord == <<"s", "t", "a", "g", "i", "n", "g">>

----------------------------------------------------------------------------
(* Values: what a file, a module variable or a field of api.ssl can hold *)

Undefined == [kind |-> "undefined"]
\* the path does not exist (fs.existsSync is false)
NoFile == [kind |-> "nofile"]
\* a file of length 0, read as the string ""
EmptyString == [kind |-> "empty"]
\* bytes that are no PEM certificate
Garbage == [kind |-> "garbage"]

\* a PEM certificate: its subject and issuer common names, its notAfter day
\* and the key pair whose CSR it was issued for
CertPem(cn, issuerCN, notAfter, key) ==
    [kind |-> "cert", commonName |-> cn, issuerCN |-> issuerCN,
     notAfter |-> notAfter, key |-> key]

\* a PEM private key
KeyPem(id) == [kind |-> "key", id |-> id]

\* JavaScript truthiness of a string-or-undefined value
Truthy(v) == v.kind \notin {"undefined", "empty"}

\* acme.forge.readCertificateInfo throws unless it is given a PEM certificate
CanReadCertificateInfo(pem) == pem.kind = "cert"

readCertificateInfo(pem) ==
    [notAfter |-> pem.notAfter,
     domains |-> [commonName |-> pem.commonName],
     issuer |-> [commonName |-> pem.issuerCN]]

\* acme.crypto.splitPemChain keeps the PEM blocks of its input and drops the rest
splitPemChain(pem) ==
    [kind |-> "chain", certs |-> IF pem.kind = "cert" THEN <<pem>> ELSE << >>]

----------------------------------------------------------------------------
(* Certificate validity evaluation *)

\* let duration = intervalToDuration({ start: new Date(), end: expires });
\* let daysLeft = duration.months * 30 + duration.days;
daysLeft(now, expires) ==
    LET duration == intervalToDuration(DateOfDay(now), DateOfDay(expires))
    IN  duration.months * DaysPerMonth + duration.days

\* the comparison without toLowerCase()
issuerIsStagingCaseSensitive(issuerCN) == includes(issuerCN, StagingWord)

\* certInfo.issuer.commonName.toLowerCase().includes("staging")
issuerIsStaging(issuerCN) == includes(toLowerCase(issuerCN), StagingWord)

\* daysLeft > 30
dateValidOf(certInfo, now) == daysLeft(now, certInfo.notAfter) > RenewThreshold

\* commonName === configDomain, cleared when the environments differ
domainValidOf(certInfo, configDomain, staging) ==
    /\ certInfo.domains.commonName = configDomain
    /\ ~(staging # issuerIsStaging(certInfo.issuer.commonName))

\* filesystem variant, check() after readCertificateInfo has answered:
\* "return" (no renewal) or "renew"
checkDecision(certInfo, now, configDomain, staging) ==
    IF dateValidOf(certInfo, now) /\ domainValidOf(certInfo, configDomain, staging)
    THEN "return" ELSE "renew"

\* remote variant: api.config.str("ssl-mode") === "staging"
isSSlStagingRemote(sslMode) == sslMode = "staging"

\* remote variant, isSslValid() for saved data whose certificate parses, or
\* for no saved data: <<sslData, error>>
isSslValid(sslData, now, configDomain, sslMode) ==
    IF sslData.kind # "undefined"
       /\ dateValidOf(readCertificateInfo(sslData.cert), now)
       /\ domainValidOf(readCertificateInfo(sslData.cert), configDomain,
                        isSSlStagingRemote(sslMode))
    THEN <<sslData, FALSE>>
    ELSE IF sslData.kind = "undefined"
    THEN <<[kind |-> "saved", cert |-> TRUE, key |-> TRUE], TRUE>>
    ELSE <<sslData, TRUE>>

----------------------------------------------------------------------------
(* Filesystem variant: state *)

VARIABLES
    now,            \* new Date(), as a day number
    configDomain,   \* api.ssl.domain
    staging,        \* api.pluginConfig.bool("staging")
    certFile,       \* content of <confdir>/letsencrypt/ssl.cert
    keyFile,        \* content of <confdir>/letsencrypt/ssl.key
    sslCert,        \* let sslCert
    sslKey,         \* let sslKey
    apiSsl,         \* api.ssl: [cert, privateKey]
    client,         \* let client: the ACME client, or Undefined
    renewMutex,     \* const renewMutex: [locked, queue of waiting calls]
    acmeChallenges, \* const acmeChallenges: token -> key authorization
    bootPc,         \* position of plugin.plugin(api)
    pc,             \* position of each check() call
    frame,          \* locals of each check() / renew() call
    nextKey,        \* number of key pairs generated so far
    restarts,       \* number of process restarts so far
    served,         \* tokens the ACME client currently asks to be served
    response,       \* the last answer of the challenge route, with the key
                    \* authorization the ACME client wanted served then
    ev,             \* evaluator specification: inputs and outputs
    remote          \* plugin "letsencrypt-ssl": its whole state, or RemoteOff

vars == <<now, configDomain, staging, certFile, keyFile, sslCert,
          sslKey, apiSsl, client, renewMutex, acmeChallenges, bootPc, pc,
          frame, nextKey, restarts, served, response, ev, remote>>

Calls == 1..MaxCalls

\* call 1 is the check(api) of the buildRoutes callback; the others are cron
\* ticks and calls of api.ssl.renewHandler
StartupCall == 1

Domain == "example.test"
OtherDomain == "other.test"

ProductionIssuer == <<"R", "3">>
StagingIssuer == <<"(", "S", "T", "A", "G", "I", "N", "G", ")", " ", "X", "1">>

\* validity, in days, of the certificates the CA issues
CertLifetimes == {90}
\* the instants, as day numbers, at which the lifecycle is observed
Instants == {0, 45}

\* contents of the configuration directory a process may find at start-up:
\* nothing, a certificate with its key, or a damaged certificate file
InitialDisks ==
    { <<NoFile, NoFile>>,
      <<CertPem(Domain, ProductionIssuer, 60, 0), KeyPem(0)>>,
      <<Garbage, KeyPem(0)>> }

NoFrame == [pem |-> Undefined, key |-> 0, token |-> 0, result |-> Undefined,
            entrySsl |-> Undefined]

NoSsl == [cert |-> Undefined, privateKey |-> Undefined]

NoResponse == [token |-> 0, code |-> 0, body |-> Undefined, wanted |-> Undefined]

EvIdle == [phase |-> "off"]

\* the remote variant is not loaded
RemoteOff == [phase |-> "off"]

\* an empty Map
EmptyMap == [t \in {} |-> Undefined]

\* module load: every let is undefined, the mutex is free, the map is empty
Memory0 ==
    /\ sslCert = Undefined
    /\ sslKey = Undefined
    /\ apiSsl = NoSsl
    /\ client = Undefined
    /\ renewMutex = [locked |-> FALSE, queue |-> << >>]
    /\ acmeChallenges = EmptyMap
    /\ bootPc = "start"
    /\ pc = [c \in Calls |-> "idle"]
    /\ frame = [c \in Calls |-> NoFrame]
    /\ served = EmptyMap
    /\ response = NoResponse

Init ==
    /\ now = 0
    /\ configDomain = Domain
    /\ staging \in BOOLEAN
    /\ \E disk \in InitialDisks : certFile = disk[1] /\ keyFile = disk[2]
    /\ Memory0
    /\ nextKey = 1
    /\ restarts = 0
    /\ ev = EvIdle
    /\ remote = RemoteOff

----------------------------------------------------------------------------
(* Filesystem variant: the pieces of code the actions are built from *)

\* acquire() whose result is not awaited: the caller goes on at once
acquireNotAwaited(m, c) == [mutex |-> [m EXCEPT !.locked = TRUE], granted |-> TRUE]

\* Mutex.acquire(): the lock is taken at once when free, else the caller is
\* queued; granted tells whether the caller's await is resolved
acquire(m, c) ==
    IF m.locked
    THEN [mutex |-> [m EXCEPT !.queue = Append(@, c)], granted |-> FALSE]
    ELSE [mutex |-> [m EXCEPT !.locked = TRUE], granted |-> TRUE]

\* a renew() that ends without renewMutex.release()
releaseSkipped(m) == [mutex |-> m, next |-> 0]

\* Mutex.release(): the lock passes to the first waiting caller, if any
release(m) ==
    IF m.queue = << >>
    THEN [mutex |-> [m EXCEPT !.locked = FALSE], next |-> 0]
    ELSE [mutex |-> [m EXCEPT !.queue = Tail(@)], next |-> Head(m.queue)]

\* Map.set / Map.delete / Map.has
MapSet(map, k, v) == (k :> v) @@ map
MapDelete(map, k) == [x \in (DOMAIN map) \ {k} |-> map[x]]
MapHas(map, k) == k \in DOMAIN map

\* the key authorization of a token: the token joined to the thumbprint of
\* the client's account key
KeyAuthorization(token, accountKey) ==
    [kind |-> "keyauth", token |-> token, accountKey |-> accountKey]

\* acmeChallenges.set(challenge.token, keyAuthorization)
challengeCreateFn(map, token, keyAuthorization) == MapSet(map, token, keyAuthorization)

\* a remove callback that deletes nothing
challengeRemoveFnKeeps(map, token) == map

\* acmeChallenges.delete(challenge.token)
challengeRemoveFn(map, token) == MapDelete(map, token)

\* a handler that answers with whatever entry the map holds
challengeRouteAnyEntry(map, token) ==
    IF DOMAIN map # {}
    THEN [code |-> 200, body |-> map[CHOOSE k \in DOMAIN map : TRUE]]
    ELSE [code |-> 404, body |-> EmptyString]

\* the handler of GET /.well-known/acme-challenge/:token
challengeRoute(map, token) ==
    IF MapHas(map, token)
    THEN [code |-> 200, body |-> map[token]]
    ELSE [code |-> 404, body |-> EmptyString]

\* a generateCsr that also hands the new key to api.ssl
generateCsrAssignPublishes(mem, key) ==
    [mem EXCEPT !.sslKey = key, !.apiSsl.privateKey = key]

\* a generateCsr that does not write the key file
generateCsrWriteSkipped(file, key) == file

\* generateCsr: await fs.promises.writeFile(sslKeyPath, sslKey): the new
\* content of ssl.key
generateCsrWrite(file, key) == KeyPem(key)

\* generateCsr: sslKey = key.toString("utf-8")
generateCsrAssign(mem, key) == [mem EXCEPT !.sslKey = key]

\* renew, after ssl.cert is written: api.ssl.cert and api.ssl.privateKey are
\* cleared and set again with no await in between
publish(result, key) == [cert |-> splitPemChain(result), privateKey |-> key]

\* the directory the client was constructed with decides who signs
IssuerOf(cl) == IF cl.directory = "staging" THEN StagingIssuer ELSE ProductionIssuer

\* renew(api) up to its first await: await renewMutex.acquire()
renew(c) ==
    LET a == acquire(renewMutex, c)
    IN  /\ renewMutex' = a.mutex
        /\ pc' = [pc EXCEPT ![c] = IF a.granted THEN "createCsr" ELSE "waiting"]
        /\ frame' = [frame EXCEPT ![c] =
                        [NoFrame EXCEPT !.entrySsl = IF a.granted THEN apiSsl ELSE Undefined]]

\* check(api) up to its first await
check(c) ==
    IF ~Truthy(sslCert) \/ ~Truthy(sslKey)
    THEN renew(c)
    ELSE /\ pc' = [pc EXCEPT ![c] = "readInfo"]
         /\ frame' = [frame EXCEPT ![c] = [NoFrame EXCEPT !.pem = sslCert]]
         /\ UNCHANGED renewMutex

----------------------------------------------------------------------------
(* Filesystem variant: plugin start-up *)

\* plugin(api) up to its first await: the read of ssl.cert, of ssl.key, or
\* acme.crypto.createPrivateKey()
PluginStart ==
    /\ bootPc = "start"
    /\ bootPc' = IF certFile # NoFile THEN "readCert"
                 ELSE IF keyFile # NoFile THEN "readKey" ELSE "createKey"
    /\ UNCHANGED <<now, configDomain, staging, certFile, keyFile, sslCert,
                   sslKey, apiSsl, client, renewMutex, acmeChallenges, pc, frame,
                   nextKey, restarts, served, response, ev, remote>>

\* readFile(sslCertPath) resolves
ReadCertDone ==
    /\ bootPc = "readCert"
    /\ sslCert' = certFile
    /\ apiSsl' = [apiSsl EXCEPT !.cert = splitPemChain(certFile)]
    /\ bootPc' = IF keyFile # NoFile THEN "readKey" ELSE "createKey"
    /\ UNCHANGED <<now, configDomain, staging, certFile, keyFile,
                   sslKey, client, renewMutex, acmeChallenges, pc, frame,
                   nextKey, restarts, served, response, ev, remote>>

\* readFile(sslCertPath) rejects: the catch clears both variables
ReadCertFails ==
    /\ bootPc = "readCert"
    /\ sslCert' = Undefined
    /\ sslKey' = Undefined
    /\ bootPc' = "createKey"
    /\ UNCHANGED <<now, configDomain, staging, certFile, keyFile,
                   apiSsl, client, renewMutex, acmeChallenges, pc, frame,
                   nextKey, restarts, served, response, ev, remote>>

\* readFile(sslKeyPath) resolves
ReadKeyDone ==
    /\ bootPc = "readKey"
    /\ sslKey' = keyFile
    /\ apiSsl' = [apiSsl EXCEPT !.privateKey = keyFile]
    /\ bootPc' = "createKey"
    /\ UNCHANGED <<now, configDomain, staging, certFile, keyFile,
                   sslCert, client, renewMutex, acmeChallenges, pc, frame,
                   nextKey, restarts, served, response, ev, remote>>

\* readFile(sslKeyPath) rejects: the catch clears both variables
ReadKeyFails ==
    /\ bootPc = "readKey"
    /\ sslCert' = Undefined
    /\ sslKey' = Undefined
    /\ bootPc' = "createKey"
    /\ UNCHANGED <<now, configDomain, staging, certFile, keyFile,
                   apiSsl, client, renewMutex, acmeChallenges, pc, frame,
                   nextKey, restarts, served, response, ev, remote>>

\* createPrivateKey() resolves: the client is built with a new account key,
\* api.ssl.renewHandler is set and the buildRoutes callback is registered
CreateClient ==
    /\ bootPc = "createKey"
    /\ client' = [directory |-> IF staging THEN "staging" ELSE "production",
                  accountKey |-> restarts + 1]
    /\ bootPc' = "waitRoutes"
    /\ UNCHANGED <<now, configDomain, staging, certFile, keyFile, sslCert,
                   sslKey, apiSsl, renewMutex, acmeChallenges, pc, frame,
                   nextKey, restarts, served, response, ev, remote>>

\* the buildRoutes callback: the challenge route is added, check(api) is
\* called and the hourly cron job is scheduled
RoutesBuilt ==
    /\ bootPc = "waitRoutes"
    /\ pc[StartupCall] = "idle"
    /\ bootPc' = "running"
    /\ check(StartupCall)
    /\ UNCHANGED <<now, configDomain, staging, certFile, keyFile, sslCert,
                   sslKey, apiSsl, client, acmeChallenges,
                   nextKey, restarts, served, response, ev, remote>>

\* a new call takes the first unused call number after the start-up call's
FreeCall(c) ==
    /\ c # StartupCall
    /\ pc[c] = "idle"
    /\ \A x \in Calls : (x # StartupCall /\ x < c) => pc[x] # "idle"

\* the host calls api.ssl.renewHandler
RenewHandler(c) ==
    /\ bootPc \in {"waitRoutes", "running"}
    /\ FreeCall(c)
    /\ check(c)
    /\ UNCHANGED <<now, configDomain, staging, certFile, keyFile, sslCert,
                   sslKey, apiSsl, client, acmeChallenges, bootPc,
                   nextKey, restarts, served, response, ev, remote>>

\* the cron job fires
CronTick(c) ==
    /\ bootPc = "running"
    /\ FreeCall(c)
    /\ check(c)
    /\ UNCHANGED <<now, configDomain, staging, certFile, keyFile, sslCert,
                   sslKey, apiSsl, client, acmeChallenges, bootPc,
                   nextKey, restarts, served, response, ev, remote>>

----------------------------------------------------------------------------
(* Filesystem variant: check() and renew() *)

\* check: readCertificateInfo(sslCert) answers; the certificate is judged
\* against new Date() and check returns or calls renew
CheckInfoRead(c) ==
    /\ pc[c] = "readInfo"
    /\ IF ~CanReadCertificateInfo(frame[c].pem)
       THEN /\ pc' = [pc EXCEPT ![c] = "threw"]
            /\ UNCHANGED <<frame, renewMutex>>
       ELSE IF checkDecision(readCertificateInfo(frame[c].pem), now, configDomain,
                             staging) = "return"
       THEN /\ pc' = [pc EXCEPT ![c] = "returned"]
            /\ UNCHANGED <<frame, renewMutex>>
       ELSE renew(c)
    /\ UNCHANGED <<now, configDomain, staging, certFile, keyFile, sslCert,
                   sslKey, apiSsl, client, acmeChallenges, bootPc,
                   nextKey, restarts, served, response, ev, remote>>

\* generateCsr: createCsr resolves; the new key is kept in sslKey and the
\* write of ssl.key is started
CreateCsrDone(c) ==
    /\ pc[c] = "createCsr"
    /\ LET mem == generateCsrAssign([sslKey |-> sslKey, apiSsl |-> apiSsl],
                                    KeyPem(nextKey))
       IN  sslKey' = mem.sslKey /\ apiSsl' = mem.apiSsl
    /\ frame' = [frame EXCEPT ![c].key = nextKey]
    /\ nextKey' = nextKey + 1
    /\ pc' = [pc EXCEPT ![c] = "writeKey"]
    /\ UNCHANGED <<now, configDomain, staging, certFile, keyFile, sslCert,
                   client, renewMutex, acmeChallenges, bootPc,
                   restarts, served, response, ev, remote>>

\* generateCsr: createCsr rejects; renew throws with the mutex held
CreateCsrFails(c) ==
    /\ pc[c] = "createCsr"
    /\ pc' = [pc EXCEPT ![c] = "failed"]
    /\ UNCHANGED <<now, configDomain, staging, certFile, keyFile, sslCert,
                   sslKey, apiSsl, client, renewMutex, acmeChallenges, bootPc,
                   frame, nextKey, restarts, served, response, ev, remote>>

\* generateCsr: writeFile(sslKeyPath) resolves; client.auto is called
WriteKeyDone(c) ==
    /\ pc[c] = "writeKey"
    /\ keyFile' = generateCsrWrite(keyFile, frame[c].key)
    /\ pc' = [pc EXCEPT ![c] = "auto"]
    /\ UNCHANGED <<now, configDomain, staging, certFile, sslCert,
                   sslKey, apiSsl, client, renewMutex, acmeChallenges, bootPc,
                   frame, nextKey, restarts, served, response, ev, remote>>

\* generateCsr: writeFile(sslKeyPath) rejects, before or after it truncated
\* the file; renew throws with the mutex held
WriteKeyFails(c) ==
    /\ pc[c] = "writeKey"
    /\ keyFile' \in {keyFile, EmptyString}
    /\ pc' = [pc EXCEPT ![c] = "failed"]
    /\ UNCHANGED <<now, configDomain, staging, certFile, sslCert,
                   sslKey, apiSsl, client, renewMutex, acmeChallenges, bootPc,
                   frame, nextKey, restarts, served, response, ev, remote>>

\* client.auto rejects before any challenge was set up
AutoRejectsEarly(c) ==
    /\ pc[c] = "auto"
    /\ pc' = [pc EXCEPT ![c] = "failed"]
    /\ UNCHANGED <<now, configDomain, staging, certFile, keyFile, sslCert,
                   sslKey, apiSsl, client, renewMutex, acmeChallenges, bootPc,
                   frame, nextKey, restarts, served, response, ev, remote>>

\* the CA holds a valid authorization for the domain already: client.auto
\* sets up no challenge and goes on to finalize the order
AuthorizationAlreadyValid(c) ==
    /\ pc[c] = "auto"
    /\ pc' = [pc EXCEPT ![c] = "finalize"]
    /\ UNCHANGED <<now, configDomain, staging, certFile, keyFile, sslCert,
                   sslKey, apiSsl, client, renewMutex, acmeChallenges, bootPc,
                   frame, nextKey, restarts, served, response, ev, remote>>

\* client.auto calls challengeCreateFn for the http-01 challenge of the order
ChallengeCreate(c) ==
    /\ pc[c] = "auto"
    /\ LET token == frame[c].key
           keyAuthorization == KeyAuthorization(token, client.accountKey)
       IN  /\ acmeChallenges' = challengeCreateFn(acmeChallenges, token, keyAuthorization)
           /\ served' = MapSet(served, token, keyAuthorization)
           /\ frame' = [frame EXCEPT ![c].token = token]
    /\ pc' = [pc EXCEPT ![c] = "challenge"]
    /\ UNCHANGED <<now, configDomain, staging, certFile, keyFile, sslCert,
                   sslKey, apiSsl, client, renewMutex, bootPc,
                   nextKey, restarts, response, ev, remote>>

\* client.auto calls challengeRemoveFn once the challenge is valid (ok) or
\* has failed (it does so in a finally clause around the verification); in
\* the second case client.auto then rejects
ChallengeRemove(c, ok) ==
    /\ pc[c] = "challenge"
    /\ acmeChallenges' = challengeRemoveFn(acmeChallenges, frame[c].token)
    /\ served' = MapDelete(served, frame[c].token)
    /\ pc' = [pc EXCEPT ![c] = IF ok THEN "finalize" ELSE "failed"]
    /\ UNCHANGED <<now, configDomain, staging, certFile, keyFile, sslCert,
                   sslKey, apiSsl, client, renewMutex, bootPc,
                   frame, nextKey, restarts, response, ev, remote>>

\* client.auto rejects while the order is finalized
AutoRejectsLate(c) ==
    /\ pc[c] = "finalize"
    /\ pc' = [pc EXCEPT ![c] = "failed"]
    /\ UNCHANGED <<now, configDomain, staging, certFile, keyFile, sslCert,
                   sslKey, apiSsl, client, renewMutex, acmeChallenges, bootPc,
                   frame, nextKey, restarts, served, response, ev, remote>>

\* client.auto resolves with the certificate issued for the CSR; the write of
\* ssl.cert is started
AutoResolves(c) ==
    /\ pc[c] = "finalize"
    /\ \E life \in CertLifetimes :
          frame' = [frame EXCEPT ![c].result =
                       CertPem(configDomain, IssuerOf(client), now + life, frame[c].key)]
    /\ pc' = [pc EXCEPT ![c] = "writeCert"]
    /\ UNCHANGED <<now, configDomain, staging, certFile, keyFile, sslCert,
                   sslKey, apiSsl, client, renewMutex, acmeChallenges, bootPc,
                   nextKey, restarts, served, response, ev, remote>>

\* writeFile(sslCertPath) resolves: api.ssl is replaced and the mutex is
\* released, which resumes the first waiting renew
WriteCertDone(c) ==
    /\ pc[c] = "writeCert"
    /\ certFile' = frame[c].result
    /\ apiSsl' = publish(frame[c].result, sslKey)
    /\ LET r == release(renewMutex)
       IN  /\ renewMutex' = r.mutex
           /\ pc' = [x \in Calls |-> IF x = c THEN "done"
                                     ELSE IF x = r.next THEN "createCsr" ELSE pc[x]]
           /\ frame' = [x \in Calls |-> IF x = r.next /\ x # c
                                        THEN [frame[x] EXCEPT !.entrySsl = apiSsl']
                                        ELSE frame[x]]
    /\ UNCHANGED <<now, configDomain, staging, keyFile, sslCert,
                   sslKey, client, acmeChallenges, bootPc,
                   nextKey, restarts, served, response, ev, remote>>

\* writeFile(sslCertPath) rejects, before or after it truncated the file;
\* renew throws with the mutex held
WriteCertFails(c) ==
    /\ pc[c] = "writeCert"
    /\ certFile' \in {certFile, EmptyString}
    /\ pc' = [pc EXCEPT ![c] = "failed"]
    /\ UNCHANGED <<now, configDomain, staging, keyFile, sslCert,
                   sslKey, apiSsl, client, renewMutex, acmeChallenges, bootPc,
                   frame, nextKey, restarts, served, response, ev, remote>>

----------------------------------------------------------------------------
(* Filesystem variant: the environment *)

\* the tokens a request may name: those of the calls of this process and one
\* that no exchange has used
RequestedTokens == ({frame[c].token : c \in Calls} \ {0}) \cup {nextKey}

\* somebody requests GET /.well-known/acme-challenge/<token>
HttpGet(token) ==
    /\ bootPc = "running"
    /\ LET res == challengeRoute(acmeChallenges, token)
       IN  response' = [token |-> token, code |-> res.code, body |-> res.body,
                        wanted |-> IF MapHas(served, token) THEN served[token]
                                   ELSE Undefined]
    /\ UNCHANGED <<now, configDomain, staging, certFile, keyFile, sslCert,
                   sslKey, apiSsl, client, renewMutex, acmeChallenges, bootPc, pc,
                   frame, nextKey, restarts, served, ev, remote>>

\* time passes
AdvanceClock ==
    /\ \E t \in Instants : t > now /\ now' = t
    /\ UNCHANGED <<configDomain, staging, certFile, keyFile, sslCert,
                   sslKey, apiSsl, client, renewMutex, acmeChallenges, bootPc, pc,
                   frame, nextKey, restarts, served, response, ev, remote>>

\* the relay process stops and is started again: the files stay, the memory
\* of the module is new
Restart ==
    /\ restarts < MaxRestarts
    /\ restarts' = restarts + 1
    /\ sslCert' = Undefined
    /\ sslKey' = Undefined
    /\ apiSsl' = NoSsl
    /\ client' = Undefined
    /\ renewMutex' = [locked |-> FALSE, queue |-> << >>]
    /\ acmeChallenges' = EmptyMap
    /\ bootPc' = "start"
    /\ pc' = [c \in Calls |-> "idle"]
    /\ frame' = [c \in Calls |-> NoFrame]
    /\ served' = EmptyMap
    /\ response' = NoResponse
    /\ UNCHANGED <<now, configDomain, staging, certFile, keyFile,
                   nextKey, ev, remote>>

Next ==
    \/ PluginStart
    \/ ReadCertDone
    \/ ReadCertFails
    \/ ReadKeyDone
    \/ ReadKeyFails
    \/ CreateClient
    \/ RoutesBuilt
    \/ \E c \in Calls : RenewHandler(c)
    \/ \E c \in Calls : CronTick(c)
    \/ \E c \in Calls : CheckInfoRead(c)
    \/ \E c \in Calls : CreateCsrDone(c)
    \/ \E c \in Calls : CreateCsrFails(c)
    \/ \E c \in Calls : WriteKeyDone(c)
    \/ \E c \in Calls : WriteKeyFails(c)
    \/ \E c \in Calls : AutoRejectsEarly(c)
    \/ \E c \in Calls : AuthorizationAlreadyValid(c)
    \/ \E c \in Calls : ChallengeCreate(c)
    \/ \E c \in Calls, ok \in BOOLEAN : ChallengeRemove(c, ok)
    \/ \E c \in Calls : AutoRejectsLate(c)
    \/ \E c \in Calls : AutoResolves(c)
    \/ \E c \in Calls : WriteCertDone(c)
    \/ \E c \in Calls : WriteCertFails(c)
    \/ \E token \in RequestedTokens : HttpGet(token)
    \/ AdvanceClock
    \/ Restart

Spec == Init /\ [][Next]_vars

----------------------------------------------------------------------------
(* The evaluator on its own: both variants' decision, applied to a stored   *)
(* certificate, a clock reading and a configuration drawn from bounded sets *)

\* filesystem variant: what check() does with sslCert and sslKey as loaded:
\* "return", "renew", or "throw" when readCertificateInfo throws
checkOutcome(cert, key, at, domain, stagingFlag) ==
    IF ~Truthy(cert) \/ ~Truthy(key) THEN "renew"
    ELSE IF ~CanReadCertificateInfo(cert) THEN "throw"
    ELSE checkDecision(readCertificateInfo(cert), at, domain, stagingFlag)

\* remote variant: what isSslValid() answers for api.ssl.getSaved():
\* "valid" (error = false), "renew" (error = true), or "throw"
isSslValidOutcome(sslData, at, domain, sslMode) ==
    IF sslData.kind # "undefined" /\ ~CanReadCertificateInfo(sslData.cert) THEN "throw"
    ELSE IF isSslValid(sslData, at, domain, sslMode)[2] THEN "renew" ELSE "valid"

\* clock readings: first and last days of months of 28, 29, 30 and 31 days
EvalNows ==
    { DayNumber([y |-> 2023, m |-> 0, d |-> 1]),
      DayNumber([y |-> 2023, m |-> 1, d |-> 1]),
      DayNumber([y |-> 2023, m |-> 3, d |-> 30]),
      DayNumber([y |-> 2024, m |-> 1, d |-> 29]) }

\* issuer common names, each with the environment it belongs to
EvalIssuers ==
    { [cn |-> ProductionIssuer, staging |-> FALSE],
      [cn |-> StagingIssuer, staging |-> TRUE],
      [cn |-> <<"s", "t", "a", "g", "i", "n", "g">>, staging |-> TRUE],
      [cn |-> <<"F", "a", "k", "e", " ", "S", "t", "a", "g", "i", "n", "g">>,
       staging |-> TRUE],
      [cn |-> <<"S", "T", "A", "G", "E">>, staging |-> FALSE] }

EvalInputs ==
    { [phase |-> "eval", now |-> n, kind |-> "cert", notAfter |-> n + delta, cn |-> cn,
       issuer |-> issuer, staging |-> stg, fsOut |-> "pending", remoteOut |-> "pending"] :
        n \in EvalNows, delta \in (0 - MaxPastDays)..MaxAheadDays,
        cn \in {Domain, OtherDomain}, issuer \in EvalIssuers, stg \in BOOLEAN }
    \cup
    { [phase |-> "eval", now |-> n, kind |-> k, notAfter |-> n, cn |-> Domain,
       issuer |-> [cn |-> ProductionIssuer, staging |-> FALSE], staging |-> stg,
       fsOut |-> "pending", remoteOut |-> "pending"] :
        n \in EvalNows, k \in {"undefined", "garbage"}, stg \in BOOLEAN }

\* the stored certificate of an evaluator input
EvalStored(e) ==
    IF e.kind = "cert" THEN CertPem(e.cn, e.issuer.cn, e.notAfter, 0)
    ELSE IF e.kind = "garbage" THEN Garbage ELSE Undefined

InitEval ==
    /\ now = 0
    /\ configDomain = Domain
    /\ staging = FALSE
    /\ certFile = NoFile
    /\ keyFile = NoFile
    /\ Memory0
    /\ nextKey = 1
    /\ restarts = 0
    /\ ev \in EvalInputs
    /\ remote = RemoteOff

\* filesystem variant: check() on the stored certificate
EvalCheck ==
    /\ ev.phase = "eval"
    /\ ev.fsOut = "pending"
    /\ ev' = [ev EXCEPT !.fsOut =
                 checkOutcome(EvalStored(ev),
                              IF ev.kind = "undefined" THEN Undefined ELSE KeyPem(0),
                              ev.now, Domain, ev.staging)]
    /\ UNCHANGED <<now, configDomain, staging, certFile, keyFile, sslCert,
                   sslKey, apiSsl, client, renewMutex, acmeChallenges, bootPc, pc,
                   frame, nextKey, restarts, served, response, remote>>

\* remote variant: isSslValid() on the saved certificate
EvalIsSslValid ==
    /\ ev.phase = "eval"
    /\ ev.remoteOut = "pending"
    /\ ev' = [ev EXCEPT !.remoteOut =
                 isSslValidOutcome(
                     IF ev.kind = "undefined" THEN Undefined
                     ELSE [kind |-> "saved", cert |-> EvalStored(ev), key |-> KeyPem(0)],
                     ev.now, Domain,
                     IF ev.staging THEN "staging" ELSE "production")]
    /\ UNCHANGED <<now, configDomain, staging, certFile, keyFile, sslCert,
                   sslKey, apiSsl, client, renewMutex, acmeChallenges, bootPc, pc,
                   frame, nextKey, restarts, served, response, remote>>

NextEval == EvalCheck \/ EvalIsSslValid

SpecEval == InitEval /\ [][NextEval]_vars

----------------------------------------------------------------------------
(* Claims *)

\* positions of a call inside renew(): queued for the mutex or holding it
RenewRunning ==
    {"waiting", "createCsr", "writeKey", "auto", "challenge", "finalize", "writeCert"}

\* positions between the start of the CSR generation and the end of client.auto
InExchange == {"createCsr", "writeKey", "auto", "challenge", "finalize"}

\* C1: whenever no renew() call is running (none is queued and none is inside
\* the guarded section), renewMutex is unlocked.
C1_MutexFreeWhenNoRenewRuns ==
    (\A c \in Calls : pc[c] \notin RenewRunning) => ~renewMutex.locked

\* C2: at most one renew() call at a time is between the start of its CSR
\* generation and the end of its ACME exchange (or its write of ssl.cert), and
\* that call holds renewMutex: a queued call has not started its exchange.
C2_OneExchangeAtATime ==
    /\ Cardinality({c \in Calls : pc[c] \in InExchange \cup {"writeCert"}}) <= 1
    /\ \A c \in Calls :
          pc[c] \in InExchange \cup {"writeCert"} =>
              /\ renewMutex.locked
              /\ \A i \in 1..Len(renewMutex.queue) : renewMutex.queue[i] # c

\* C2 witness: one call is in its ACME exchange while another waits for the mutex
C2_Witness ==
    \E c, d \in Calls : pc[c] = "challenge" /\ pc[d] = "waiting"

\* C3: when a renew() call has failed and api.ssl held a certificate and a
\* private key when the call entered its guarded section, api.ssl.cert and
\* api.ssl.privateKey still have the values they had then.
C3_FailedRenewKeepsActiveTls ==
    \A c \in Calls :
        (/\ pc[c] = "failed"
         /\ frame[c].entrySsl # Undefined
         /\ frame[c].entrySsl.cert # Undefined
         /\ frame[c].entrySsl.privateKey # Undefined)
        => apiSsl = frame[c].entrySsl

\* C3 witness: a renew() call that had generated a new key failed while
\* api.ssl held a certificate and its key
C3_Witness ==
    \E c \in Calls :
        /\ pc[c] = "failed"
        /\ frame[c].key # 0
        /\ frame[c].entrySsl # Undefined
        /\ frame[c].entrySsl.cert # Undefined
        /\ frame[c].entrySsl.privateKey # Undefined
        /\ Len(frame[c].entrySsl.cert.certs) = 1
        /\ sslKey # frame[c].entrySsl.privateKey
        /\ apiSsl = frame[c].entrySsl

\* C4: in every state api.ssl.cert and api.ssl.privateKey are both set or both
\* unset.
C4_ActiveTlsIsAPair ==
    (apiSsl.cert = Undefined) <=> (apiSsl.privateKey = Undefined)

\* C5: a stored certificate with notAfter more than 30 days after now, the
\* configured common name and the configured environment is judged valid:
\* check() does not renew and isSslValid() does not report an error.
C5_FreshMatchingCertIsValid ==
    (/\ ev.phase = "eval"
     /\ ev.kind = "cert"
     /\ ev.notAfter - ev.now > 30
     /\ ev.cn = Domain
     /\ ev.issuer.staging = ev.staging)
    => /\ ev.fsOut \in {"pending", "return"}
       /\ ev.remoteOut \in {"pending", "valid"}

\* C6: a stored certificate with notAfter at most 30 days after now is judged
\* MustRenew whatever its common name and issuer: check() renews and
\* isSslValid() reports an error.
C6_ExpiringCertIsRenewed ==
    (/\ ev.phase = "eval"
     /\ ev.kind = "cert"
     /\ ev.notAfter - ev.now >= 0
     /\ ev.notAfter - ev.now <= 30)
    => /\ ev.fsOut \in {"pending", "renew"}
       /\ ev.remoteOut \in {"pending", "renew"}

\* C7: a stored certificate whose issuer belongs to the other environment than
\* the configured one is never judged valid, whatever its dates and common
\* name and whatever the letter case of "staging" in the issuer's name.
C7_EnvironmentMismatchRenews ==
    (/\ ev.phase = "eval"
     /\ ev.kind = "cert"
     /\ ev.issuer.staging # ev.staging)
    => /\ ev.fsOut \in {"pending", "renew"}
       /\ ev.remoteOut \in {"pending", "renew"}

\* C7 witness: production is configured, the issuer's name holds "STAGING" in
\* capitals, the date check passes and the common name is the configured one,
\* and both variants decide to renew
C7_Witness ==
    /\ ev.phase = "eval"
    /\ ev.kind = "cert"
    /\ ev.staging = FALSE
    /\ ev.issuer.cn = StagingIssuer
    /\ ev.cn = Domain
    /\ ev.notAfter - ev.now = 75
    /\ dateValidOf(readCertificateInfo(EvalStored(ev)), ev.now)
    /\ ev.fsOut = "renew"
    /\ ev.remoteOut = "renew"

\* C8: no check() call raises an error: an unreadable or unparsable stored
\* certificate leads to renew() like a missing one.
C8_CheckNeverThrows ==
    \A c \in Calls : pc[c] # "threw"

\* C9: the challenge route answers a request for a token the ACME client has
\* registered and not yet removed with 200 and that token's key authorization,
\* and any other request with 404 and an empty body.
C9_RouteServesRegisteredTokens ==
    /\ response.code = 200 =>
          /\ response.wanted # Undefined
          /\ response.body = response.wanted
          /\ response.body.token = response.token
    /\ response.code = 404 =>
          /\ response.wanted = Undefined
          /\ response.body = EmptyString
    /\ response.code \in {0, 200, 404}

\* C9 witness: a registered token was requested and answered with its key
\* authorization while another call had a removed token of its own
C9_Witness ==
    /\ response.code = 200
    /\ response.body = response.wanted
    /\ \E c \in Calls : pc[c] = "challenge" /\ frame[c].token = response.token
    /\ \E d \in Calls : pc[d] = "done" /\ frame[d].token # 0

\* C10: once a renew() call has exited, with success or with a failure, the
\* token registered during that call is no longer in acmeChallenges.
C10_NoChallengeLeftAfterRenew ==
    \A c \in Calls :
        (pc[c] \in {"done", "failed"} /\ frame[c].token # 0)
        => ~MapHas(acmeChallenges, frame[c].token)

\* C10 witness: a renew() call failed after challengeCreateFn had registered
\* its token, and the map is empty
C10_Witness ==
    \E c \in Calls :
        /\ pc[c] = "failed"
        /\ frame[c].token # 0
        /\ frame[c].result = Undefined
        /\ DOMAIN acmeChallenges = {}

\* the calls that hold renewMutex: inside the guarded section of renew()
HoldsMutex(c) == pc[c] \in InExchange \cup {"writeCert"}

\* whether a certificate passes the evaluator's rules as the specification
\* words them: more than 30 days left, the configured common name, and an
\* issuer of the configured environment
Acceptable(cert) ==
    /\ cert.kind = "cert"
    /\ cert.notAfter - now > 30
    /\ cert.commonName = configDomain
    /\ (cert.issuerCN = StagingIssuer) = staging

\* C13: every ACME exchange of the deployment is made with the account key
\* that was created first, also after the plugin was started again.
C13_OneAccountKeyPerDeployment ==
    \A c \in Calls :
        pc[c] \in {"auto", "challenge", "finalize"} => client.accountKey = 1

\* C14: after a renew() has failed, a check() that calls renew() while no
\* renew() is running obtains renewMutex and starts the renewal: it is not
\* queued behind a mutex that no call will release.
C14_FailedRenewDoesNotBlockLaterOnes ==
    [][\A d \in Calls :
          (/\ pc[d] \in {"idle", "readInfo"}
           /\ pc'[d] \in RenewRunning
           /\ \E c \in Calls : pc[c] = "failed"
           /\ \A h \in Calls : ~HoldsMutex(h))
          => pc'[d] = "createCsr"]_vars

\* C16: while a renew() call is in its ACME exchange, ssl.key holds the key
\* generated for that call's CSR, and the call holds renewMutex both while it
\* writes the key and during the exchange.
C16_KeyWrittenBeforeExchange ==
    \A c \in Calls :
        /\ pc[c] \in {"auto", "challenge", "finalize"} =>
              /\ keyFile = KeyPem(frame[c].key)
              /\ sslKey = KeyPem(frame[c].key)
        /\ pc[c] \in {"writeKey", "auto", "challenge", "finalize"} =>
              /\ renewMutex.locked
              /\ \A i \in 1..Len(renewMutex.queue) : renewMutex.queue[i] # c
              /\ \A d \in Calls : d # c => ~HoldsMutex(d)

\* C16 witness: a call is in its ACME exchange with its new key on disk beside
\* the certificate of an earlier issuance
C16_Witness ==
    \E c \in Calls :
        /\ pc[c] = "challenge"
        /\ keyFile = KeyPem(frame[c].key)
        /\ certFile.kind = "cert"
        /\ certFile.key # frame[c].key

\* C17: once a renew() has succeeded and the certificate it published passes
\* the evaluator's rules, a check() that starts does not call renew().
C17_ValidCertIsNotRenewedAgain ==
    [][\A d \in Calls :
          (/\ pc[d] = "idle"
           /\ \E c \in Calls : pc[c] = "done"
           /\ apiSsl.cert # Undefined
           /\ Len(apiSsl.cert.certs) = 1
           /\ Acceptable(apiSsl.cert.certs[1])
           /\ now' = now
           /\ restarts' = restarts)
          => pc'[d] \notin RenewRunning]_vars

\* C18: once start-up has loaded the files, a certificate and a private key
\* held by api.ssl belong to the same issuance: the key is the one the
\* certificate was issued for.
C18_LoadedPairIsOneIssuance ==
    (/\ bootPc \in {"createKey", "waitRoutes", "running"}
     /\ apiSsl.cert # Undefined
     /\ Len(apiSsl.cert.certs) = 1
     /\ apiSsl.privateKey # Undefined
     /\ apiSsl.privateKey.kind = "key")
    => apiSsl.cert.certs[1].key = apiSsl.privateKey.id

\* C20: a stored certificate whose notAfter is before now is never judged
\* valid: check() renews and isSslValid() reports an error.
C20_ExpiredCertIsRenewed ==
    (/\ ev.phase = "eval"
     /\ ev.kind = "cert"
     /\ ev.notAfter < ev.now)
    => /\ ev.fsOut \in {"pending", "renew"}
       /\ ev.remoteOut \in {"pending", "renew"}

\* C19: a renew() that is queued on renewMutex when another renew() completes
\* successfully does not go on to generate a CSR and run an ACME exchange of
\* its own: the step that ends the first renew() does not start the second.
C19_QueuedCallDoesNotIssueAgain ==
    [][\A c, d \in Calls :
          (/\ pc[d] = "waiting"
           /\ pc[c] = "writeCert"
           /\ pc'[c] = "done")
          => pc'[d] \notin InExchange]_vars

-----------------------------------------------------------------------------
(* Filesystem variant, first start: no ssl.cert and no ssl.key on disk, the *)
(* process keeps running, and every awaited operation of plugin() and       *)
(* renew() resolves: createCsr, the file writes and client.auto succeed     *)

InitLive ==
    /\ Init
    /\ certFile = NoFile
    /\ keyFile = NoFile

NextLive ==
    \/ PluginStart
    \/ CreateClient
    \/ RoutesBuilt
    \/ \E c \in Calls : RenewHandler(c)
    \/ \E c \in Calls : CronTick(c)
    \/ \E c \in Calls : CreateCsrDone(c)
    \/ \E c \in Calls : WriteKeyDone(c)
    \/ \E c \in Calls : AuthorizationAlreadyValid(c)
    \/ \E c \in Calls : ChallengeCreate(c)
    \/ \E c \in Calls : ChallengeRemove(c, TRUE)
    \/ \E c \in Calls : AutoResolves(c)
    \/ \E c \in Calls : WriteCertDone(c)
    \/ \E token \in RequestedTokens : HttpGet(token)
    \/ AdvanceClock

\* the event loop runs every continuation whose awaited promise has resolved,
\* and the host resolves waitFor("core.appServer.buildRoutes"); the host's
\* calls of renewHandler, the cron ticks, requests and the clock are free
FairLive ==
    /\ WF_vars(PluginStart)
    /\ WF_vars(CreateClient)
    /\ WF_vars(RoutesBuilt)
    /\ \A c \in Calls :
          /\ WF_vars(CreateCsrDone(c))
          /\ WF_vars(WriteKeyDone(c))
          /\ WF_vars(AuthorizationAlreadyValid(c) \/ ChallengeCreate(c))
          /\ WF_vars(ChallengeRemove(c, TRUE))
          /\ WF_vars(AutoResolves(c))
          /\ WF_vars(WriteCertDone(c))

SpecLive == InitLive /\ [][NextLive]_vars /\ FairLive

\* the result of call c is installed: api.ssl holds the issued chain and the
\* key of its CSR, both files hold the same, and renewMutex is unlocked
Installed(c) ==
    /\ pc[c] = "done"
    /\ frame[c].result.kind = "cert"
    /\ frame[c].result.key = frame[c].key
    /\ apiSsl.cert = splitPemChain(frame[c].result)
    /\ apiSsl.privateKey = KeyPem(frame[c].key)
    /\ certFile = frame[c].result
    /\ keyFile = KeyPem(frame[c].key)
    /\ ~renewMutex.locked

\* C12: from a start with no ssl.cert and ssl.key and with an exchange that
\* succeeds, the system eventually reaches a state where api.ssl holds the
\* issued chain with the key generated for its CSR, the files hold the same
\* certificate and key, and renewMutex is unlocked.
C12_EventuallyInstalled == <>(\E c \in Calls : Installed(c))

\* C12 witness: the start-up renewal is installed and its certificate names
\* the configured domain and the configured environment's issuer
C12_Witness ==
    /\ Installed(StartupCall)
    /\ frame[StartupCall].result.commonName = configDomain
    /\ (frame[StartupCall].result.issuerCN = StagingIssuer) = staging

-----------------------------------------------------------------------------
(* Remote variant (plugin "letsencrypt-ssl"): state and code                *)

\* the boot check and MaxCalls cron ticks
RemoteCalls == 1..(MaxCalls + 1)

\* call 1 is bootup(api): check(api, true)
BootCall == 1

\* the issuer of the directory chosen by isSSlStaging(api)
RemoteIssuerOf(sslMode) ==
    IF isSSlStagingRemote(sslMode) THEN StagingIssuer ELSE ProductionIssuer

NoRemoteFrame ==
    [sslData |-> Undefined, accountKey |-> 0, certificateKey |-> 0]

\* what api.ssl.getSaved() and the account key file hold when the process
\* starts: nothing; an account key left by an exchange that failed; or a
\* certificate saved by an earlier run, with the account key of that run
RemoteStores ==
    { [saved |-> Undefined, accountKeyFile |-> 0],
      [saved |-> Undefined, accountKeyFile |-> 1],
      [saved |-> [kind |-> "saved",
                  cert |-> CertPem(Domain, ProductionIssuer, 60, 0),
                  key |-> KeyPem(0)],
       accountKeyFile |-> 1] }

InitRemote ==
    /\ now = 0
    /\ configDomain = Domain
    /\ staging = FALSE
    /\ certFile = NoFile
    /\ keyFile = NoFile
    /\ Memory0
    /\ nextKey = 1
    /\ restarts = 0
    /\ ev = EvIdle
    /\ \E store \in RemoteStores, mode \in {"staging", "production"} :
          remote = [phase |-> "on",
                    alive |-> TRUE,
                    sslMode |-> mode,
                    saved |-> store.saved,
                    accountKeyFile |-> store.accountKeyFile,
                    active |-> Undefined,
                    routes |-> {},
                    cron |-> FALSE,
                    pc |-> [c \in RemoteCalls |-> "idle"],
                    frame |-> [c \in RemoteCalls |-> NoRemoteFrame],
                    nextId |-> 2]

RemoteUnchanged ==
    UNCHANGED <<now, configDomain, staging, certFile, keyFile, sslCert,
                sslKey, apiSsl, client, renewMutex, acmeChallenges, bootPc, pc,
                frame, nextKey, restarts, served, response, ev>>

\* plugin(api): cron.schedule runs once await bootup(api) has returned
cronScheduledAfter(c) == remote.cron \/ c = BootCall

\* plugin(api) up to its first await: bootup(api) = check(api, true), up to
\* await api.ssl.getSaved(boot)
Bootup ==
    /\ remote.alive
    /\ remote.pc[BootCall] = "idle"
    /\ remote' = [remote EXCEPT !.pc[BootCall] = "getSaved"]
    /\ RemoteUnchanged

\* the cron job fires: check(api) up to await api.ssl.getSaved(boot)
RemoteCronTick(c) ==
    /\ remote.alive
    /\ remote.cron
    /\ c # BootCall
    /\ remote.pc[c] = "idle"
    /\ \A x \in RemoteCalls : (x # BootCall /\ x < c) => remote.pc[x] # "idle"
    /\ remote' = [remote EXCEPT !.pc[c] = "getSaved"]
    /\ RemoteUnchanged

\* isSslValid: api.ssl.getSaved() answers; with saved data the call goes on
\* to readCertificateInfo, without it isSslValid returns [{cert: true, key:
\* true}, true] and check calls createOrRenewSSl, which runs up to getSslFile
GetSavedDone(c) ==
    /\ remote.alive
    /\ remote.pc[c] = "getSaved"
    /\ remote' =
         IF remote.saved # Undefined
         THEN [remote EXCEPT !.pc[c] = "readInfo",
                             !.frame[c].sslData = remote.saved]
         ELSE [remote EXCEPT !.pc[c] = "getAccountKey",
                             !.frame[c].sslData =
                                 isSslValid(Undefined, now, configDomain,
                                            remote.sslMode)[1]]
    /\ RemoteUnchanged

\* isSslValid: readCertificateInfo answers; check then either sets the saved
\* pair active and returns, or calls createOrRenewSSl
ReadInfoDone(c) ==
    /\ remote.alive
    /\ remote.pc[c] = "readInfo"
    /\ LET res == isSslValid(remote.frame[c].sslData, now, configDomain,
                             remote.sslMode)
       IN  remote' =
             IF ~res[2]
             THEN [remote EXCEPT !.pc[c] = "returned",
                                 !.active = [cert |-> res[1].cert,
                                             key |-> res[1].key],
                                 !.cron = cronScheduledAfter(c)]
             ELSE [remote EXCEPT !.pc[c] = "getAccountKey",
                                 !.frame[c].sslData = res[1]]
    /\ RemoteUnchanged

\* getSslFile: openIndependentFileSmall answers [file, err]; the file, or false
getSslFile(file, err) == IF err \/ file = 0 THEN 0 ELSE file

\* createOrRenewSSl: getSslFile(FILE_ACCOUNT_KEY_NAME) answers; with a key the
\* client is built and createCsr awaited, without one createPrivateKey
GetAccountKeyDone(c, err) ==
    /\ remote.alive
    /\ remote.pc[c] = "getAccountKey"
    /\ LET accountKey == getSslFile(remote.accountKeyFile, err)
       IN  remote' =
             IF accountKey # 0
             THEN [remote EXCEPT !.pc[c] = "createCsr",
                                 !.frame[c].accountKey = accountKey]
             ELSE [remote EXCEPT !.pc[c] = "createAccountKey"]
    /\ RemoteUnchanged

\* createOrRenewSSl: acme.forge.createPrivateKey() answers
CreateAccountKeyDone(c) ==
    /\ remote.alive
    /\ remote.pc[c] = "createAccountKey"
    /\ remote' = [remote EXCEPT !.pc[c] = "saveAccountKey",
                                !.frame[c].accountKey = remote.nextId,
                                !.nextId = @ + 1]
    /\ RemoteUnchanged

\* createOrRenewSSl: createIndependentFileSmall(FILE_ACCOUNT_KEY_NAME) answers
SaveAccountKeyDone(c) ==
    /\ remote.alive
    /\ remote.pc[c] = "saveAccountKey"
    /\ remote' = [remote EXCEPT !.pc[c] = "createCsr",
                                !.accountKeyFile = remote.frame[c].accountKey]
    /\ RemoteUnchanged

\* createOrRenewSSl: acme.forge.createCsr answers
RemoteCreateCsrDone(c) ==
    /\ remote.alive
    /\ remote.pc[c] = "createCsr"
    /\ remote' = [remote EXCEPT !.pc[c] = "auto",
                                !.frame[c].certificateKey = remote.nextId,
                                !.nextId = @ + 1]
    /\ RemoteUnchanged

\* an await outside the try block rejects (createIndependentFileSmall,
\* createCsr, api.ssl.save): check rejects; a rejected bootup leaves
\* plugin(api) before cron.schedule
RemoteAwaitRejects(c) ==
    /\ remote.alive
    /\ remote.pc[c] \in {"saveAccountKey", "createCsr", "save"}
    /\ remote' = [remote EXCEPT !.pc[c] = "threw"]
    /\ RemoteUnchanged

\* acmeClient.auto finds the authorization valid already: no challenge
RemoteAuthorizationAlreadyValid(c) ==
    /\ remote.alive
    /\ remote.pc[c] = "auto"
    /\ remote' = [remote EXCEPT !.pc[c] = "finalize"]
    /\ RemoteUnchanged

\* challengeCreateFn: api.appRouter.get().get("/.well-known/acme-challenge/
\* <token>", ...); the token of a call is numbered as its certificate key
RemoteChallengeCreate(c) ==
    /\ remote.alive
    /\ remote.pc[c] = "auto"
    /\ remote' = [remote EXCEPT !.pc[c] = "challenge",
                                !.routes = @ \cup {remote.frame[c].certificateKey}]
    /\ RemoteUnchanged

\* the catch clause of createOrRenewSSl: console.error, process.exit(1)
exitOnError(r, c) == [r EXCEPT !.pc[c] = "caught", !.alive = FALSE]

\* challengeRemoveFn: api.appRouter.reset() drops every route; when the
\* challenge failed acmeClient.auto then rejects
RemoteChallengeRemove(c, ok) ==
    /\ remote.alive
    /\ remote.pc[c] = "challenge"
    /\ LET reset == [remote EXCEPT !.routes = {}]
       IN  remote' = IF ok THEN [reset EXCEPT !.pc[c] = "finalize"]
                     ELSE exitOnError(reset, c)
    /\ RemoteUnchanged

\* acmeClient.auto rejects before a challenge or while finalizing
RemoteAutoRejects(c) ==
    /\ remote.alive
    /\ remote.pc[c] \in {"auto", "finalize"}
    /\ remote' = exitOnError(remote, c)
    /\ RemoteUnchanged

\* acmeClient.auto resolves: api.ssl.set(cert, certificateKey), then await
\* api.ssl.save()
RemoteAutoResolves(c) ==
    /\ remote.alive
    /\ remote.pc[c] = "finalize"
    /\ \E life \in CertLifetimes :
          remote' = [remote EXCEPT
              !.pc[c] = "save",
              !.active =
                  [cert |-> CertPem(configDomain, RemoteIssuerOf(remote.sslMode),
                                    now + life, remote.frame[c].certificateKey),
                   key |-> KeyPem(remote.frame[c].certificateKey)]]
    /\ RemoteUnchanged

\* api.ssl.save() answers: the active pair is what getSaved returns from now
SaveDone(c) ==
    /\ remote.alive
    /\ remote.pc[c] = "save"
    /\ remote' = [remote EXCEPT
                     !.pc[c] = "done",
                     !.saved = [kind |-> "saved", cert |-> remote.active.cert,
                                key |-> remote.active.key],
                     !.cron = cronScheduledAfter(c)]
    /\ RemoteUnchanged

NextRemote ==
    \/ Bootup
    \/ \E c \in RemoteCalls : RemoteCronTick(c)
    \/ \E c \in RemoteCalls : GetSavedDone(c)
    \/ \E c \in RemoteCalls : ReadInfoDone(c)
    \/ \E c \in RemoteCalls, err \in BOOLEAN : GetAccountKeyDone(c, err)
    \/ \E c \in RemoteCalls : CreateAccountKeyDone(c)
    \/ \E c \in RemoteCalls : SaveAccountKeyDone(c)
    \/ \E c \in RemoteCalls : RemoteCreateCsrDone(c)
    \/ \E c \in RemoteCalls : RemoteAwaitRejects(c)
    \/ \E c \in RemoteCalls : RemoteAuthorizationAlreadyValid(c)
    \/ \E c \in RemoteCalls : RemoteChallengeCreate(c)
    \/ \E c \in RemoteCalls, ok \in BOOLEAN : RemoteChallengeRemove(c, ok)
    \/ \E c \in RemoteCalls : RemoteAutoRejects(c)
    \/ \E c \in RemoteCalls : RemoteAutoResolves(c)
    \/ \E c \in RemoteCalls : SaveDone(c)
    \/ AdvanceClock

SpecRemote == InitRemote /\ [][NextRemote]_vars

\* C11: when the ACME exchange of a periodic check fails while a saved
\* certificate exists, the process keeps running and a certificate stays
\* active.
C11_PeriodicFailureIsNotFatal ==
    \A c \in RemoteCalls :
        (/\ c # BootCall
         /\ remote.pc[c] = "caught"
         /\ remote.saved # Undefined)
        => /\ remote.alive
           /\ remote.active # Undefined

\* C15: at most one createOrRenewSSl call is inside acmeClient.auto at any
\* time, and while a call waits for its challenge to be verified its route is
\* registered.
C15_OneRemoteExchangeAtATime ==
    /\ Cardinality({c \in RemoteCalls :
                       remote.pc[c] \in {"auto", "challenge", "finalize"}}) <= 1
    /\ \A c \in RemoteCalls :
          remote.pc[c] = "challenge" => remote.frame[c].certificateKey \in remote.routes

====
